---------------------------- MODULE Spec2Model ----------------------------
(***************************************************************************)
(* Model of tf2/transform_datatypes.h: the Stamped<T> and StampedTransform *)
(* wrappers and the conversions between geometry_msgs messages and the     *)
(* LinearMath (Bullet) types.                                              *)
(*                                                                         *)
(* Numbers.  A double that enters through a message field is a multiple of *)
(* 1/SCALE (SCALE = 2^14, so the value, its square and the sum of four     *)
(* squares are exact doubles).  The only other doubles the code produces   *)
(* are components divided by a length, so a quaternion is kept exactly as  *)
(* four integer numerators over one common radical:                        *)
(*      [x, y, z, w, d]  stands for  (x, y, z, w) / sqrt(d)                *)
(* d = SCALE^2 for a value copied from grid fields, d = x^2+y^2+z^2+w^2    *)
(* after a normalisation, and d = 0 is the all-NaN quaternion (0/0).       *)
(* Rounding of the square root and the division is not modelled.           *)
(***************************************************************************)
EXTENDS Integers, Sequences, FiniteSets, TLC

VARIABLES
  family,      \* which group of objects the calling program holds
  q_msg,       \* geometry_msgs::QuaternionStamped, the caller's input message
  q_bt,        \* Stamped<Quaternion>
  q_out,       \* geometry_msgs::QuaternionStamped, the caller's output message
  v_msg,       \* geometry_msgs::Vector3Stamped, input
  v_bt,        \* Stamped<Vector3>
  v_out,       \* geometry_msgs::Vector3Stamped, output
  p_msg,       \* geometry_msgs::PointStamped, input
  p_bt,        \* Stamped<Point>
  p_out,       \* geometry_msgs::PointStamped, output
  t_msg,       \* geometry_msgs::TransformStamped, input
  t_bt,        \* StampedTransform
  t_out,       \* geometry_msgs::TransformStamped, output
  o_msg,       \* geometry_msgs::PoseStamped, input
  o_bt,        \* Stamped<Pose>
  o_out,       \* geometry_msgs::PoseStamped, output
  sa,          \* a Stamped<Point>
  sb,          \* another Stamped<Point>
  st,          \* a StampedTransform
  cmp,         \* the last operator== call: <<>> or <<[lhs, rhs, result]>>
  th_op,       \* per thread: the conversion it calls
  th_pc,       \* per thread: the statement it is at
  th_in,       \* per thread: the argument it reads (its own message or Quaternion)
  th_out,      \* per thread: the argument it writes (its own Quaternion or message)
  th_temp,     \* per call frame: the local bt_temp of quaternionTF2ToMsg
  log          \* the ROS_WARN sink: the warnings emitted so far

qvars == <<q_msg, q_bt, q_out>>
vvars == <<v_msg, v_bt, v_out>>
pvars == <<p_msg, p_bt, p_out>>
tvars == <<t_msg, t_bt, t_out>>
ovars == <<o_msg, o_bt, o_out>>
svars == <<sa, sb, st, cmp>>
thvars == <<th_op, th_pc, th_in, th_out, th_temp>>
vars == <<family, qvars, vvars, pvars, tvars, ovars, svars, thvars, log>>

----------------------------------------------------------------------------
(* Bounds and input sets *)

\* longest warning log the calling program is followed to
MaxLog == 2
\* number of threads calling conversions at the same time
NThreads == 2

\* one unit of a message field is 1/SCALE
SCALE == 2^14
SCALE2 == SCALE * SCALE
HALF == SCALE \div 2

\* 2499^2 + 17001^2 = 2^28 + 26843546: squared length exactly 1 + 0.1f
EdgeComps == <<2499, 17001>>
CompA == EdgeComps[1]
CompB == EdgeComps[2]

\* components of the signed quaternions and of those at the tolerance's edge
QCompSigned == {-SCALE, 0, HALF, SCALE}
QCompEdge == {0, SCALE, CompA, CompB}
\* components of vectors and points
VComp == {-SCALE, 0, HALF}

Abs(n) == IF n < 0 THEN -n ELSE n

RECURSIVE GCD(_, _)
GCD(a, b) == IF b = 0 THEN a ELSE GCD(b, a % b)

----------------------------------------------------------------------------
(* LinearMath: btQuaternion *)

\* Quaternion(x, y, z, w) built from four message fields
Quaternion(x, y, z, w) == [x |-> x, y |-> y, z |-> z, w |-> w, d |-> SCALE2]

SumSq(q) == q.x * q.x + q.y * q.y + q.z * q.z + q.w * q.w

\* btQuaternion::length2(): the rational SumSq/d (NaN when d = 0)
length2(q) == [num |-> SumSq(q), den |-> q.d]

\* btQuaternion::normalize(): *this /= length(); 0/0 gives NaN
normalize(q) == [q EXCEPT !.d = IF q.d = 0 THEN 0 ELSE SumSq(q)]

\* variant (used to test the properties): a tolerance of 2^-7
QUATERNION_TOLERANCE_Tight == [num |-> 1, den |-> 2^7]

\* static const double QUATERNION_TOLERANCE = 0.1f;
\* the float 0.1f widened to double is 13421773 / 2^27
QUATERNION_TOLERANCE == [num |-> 13421773, den |-> 2^27]

\* fabs(l - 1) > tol for a rational l; every comparison with NaN is false
FabsMinus1Exceeds(l, tol) ==
  IF l.den = 0 THEN FALSE
  ELSE LET e == Abs(l.num - l.den)
           g == GCD(l.den, tol.den)
       IN  IF e = 0 THEN FALSE
           ELSE e * (tol.den \div g) > tol.num * (l.den \div g)

WARN_MSG_TO_TF2 == "MSG to TF2: Quaternion Not Properly Normalized"
WARN_TF2_TO_MSG == "TF2 to MSG: Quaternion Not Properly Normalized"

----------------------------------------------------------------------------
(* Messages and wrappers *)

Header(stamp, frame_id) == [stamp |-> stamp, frame_id |-> frame_id]

Time(sec, nsec) == [sec |-> sec, nsec |-> nsec]

\* a default-constructed message: zero fields, zero time, empty frame_id
DefaultHeader == Header(Time(0, 0), "")
DefaultQuaternionMsg == Quaternion(0, 0, 0, 0)

\* Stamped(input, timestamp, frame_id)
Stamped(input, timestamp, frame_id) ==
  [data |-> input, stamp_ |-> timestamp, frame_id_ |-> frame_id]

NO_ID == "NO_ID_STAMPED_DEFAULT_CONSTRUCTION"

Times == {Time(1, 0), Time(1, 5)}
Frames == {"map", "base"}
AllHeaders == {Header(t, f) : t \in Times, f \in Frames}
\* the headers of the conversion inputs
Headers == {Header(Time(1, 0), "map"), Header(Time(1, 5), "base")}

QuaternionOver(C) == {Quaternion(x, y, z, w) : x \in C, y \in C, z \in C, w \in C}
QuaternionIn == QuaternionOver(QCompSigned) \cup QuaternionOver(QCompEdge)

----------------------------------------------------------------------------
(* Quaternion conversions *)

\* quaternionMsgToTF2(msg, bt): the new bt and the warnings emitted
quaternionMsgToTF2(msg) ==
  LET bt == [x |-> msg.x, y |-> msg.y, z |-> msg.z, w |-> msg.w, d |-> msg.d]
  IN  IF FabsMinus1Exceeds(length2(bt), QUATERNION_TOLERANCE)
      THEN [bt |-> normalize(bt), warn |-> <<WARN_MSG_TO_TF2>>]
      ELSE [bt |-> bt, warn |-> <<>>]

\* quaternionTF2ToMsg(bt, msg): the new msg and the warnings emitted
quaternionTF2ToMsg(bt) ==
  IF FabsMinus1Exceeds(length2(bt), QUATERNION_TOLERANCE)
  THEN LET bt_temp == normalize(bt)
       IN  [msg |-> [x |-> bt_temp.x, y |-> bt_temp.y, z |-> bt_temp.z,
                     w |-> bt_temp.w, d |-> bt_temp.d],
            warn |-> <<WARN_TF2_TO_MSG>>]
  ELSE [msg |-> [x |-> bt.x, y |-> bt.y, z |-> bt.z, w |-> bt.w, d |-> bt.d],
        warn |-> <<>>]

\* quaternionStampedMsgToTF2(msg, bt)
quaternionStampedMsgToTF2(msg, bt) ==
  LET r == quaternionMsgToTF2(msg.quaternion)
  IN  [bt |-> [bt EXCEPT !.data = r.bt,
                         !.stamp_ = msg.header.stamp,
                         !.frame_id_ = msg.header.frame_id],
       warn |-> r.warn]

\* quaternionStampedTF2ToMsg(bt, msg)
quaternionStampedTF2ToMsg(bt, msg) ==
  LET r == quaternionTF2ToMsg(bt.data)
  IN  [msg |-> [msg EXCEPT !.quaternion = r.msg,
                           !.header.stamp = bt.stamp_,
                           !.header.frame_id = bt.frame_id_],
       warn |-> r.warn]


----------------------------------------------------------------------------
(* LinearMath: btVector3, btMatrix3x3, btTransform *)

\* Vector3(x, y, z), also Point
Vector3(x, y, z) == [x |-> x, y |-> y, z |-> z]

RECURSIVE SqrtBetween(_, _, _)
SqrtBetween(n, lo, hi) ==
  IF lo >= hi THEN lo
  ELSE LET mid == (lo + hi + 1) \div 2
       IN  IF mid * mid <= n THEN SqrtBetween(n, mid, hi)
           ELSE SqrtBetween(n, lo, mid - 1)

\* btSqrt of a perfect square below 2^31
btSqrt(n) == SqrtBetween(n, 0, 46340)

NaNQuaternion == [x |-> 0, y |-> 0, z |-> 0, w |-> 0, d |-> 0]
NaNMatrix == [el |-> <<<<0, 0, 0>>, <<0, 0, 0>>, <<0, 0, 0>>>>, den |-> 0]

\* btMatrix3x3::setRotation(q): s = 2 / q.length2(), entries 1 - (yy + zz), xy - wz, ...
\* kept as integer numerators el over the common denominator den = x^2+y^2+z^2+w^2;
\* a zero or NaN quaternion gives the all-NaN matrix (den = 0)
setRotation(q) ==
  LET n == SumSq(q)
  IN  IF q.d = 0 \/ n = 0 THEN NaNMatrix
      ELSE [el |-> << << n - 2 * (q.y * q.y + q.z * q.z),
                         2 * (q.x * q.y - q.w * q.z),
                         2 * (q.x * q.z + q.w * q.y) >>,
                      << 2 * (q.x * q.y + q.w * q.z),
                         n - 2 * (q.x * q.x + q.z * q.z),
                         2 * (q.y * q.z - q.w * q.x) >>,
                      << 2 * (q.x * q.z - q.w * q.y),
                         2 * (q.y * q.z + q.w * q.x),
                         n - 2 * (q.x * q.x + q.y * q.y) >> >>,
            den |-> n]

\* btMatrix3x3::getRotation(q): the quaternion of the matrix, by the trace when it is
\* positive and else by the largest diagonal entry; rows and columns are 1..3 here
getRotation(m) ==
  IF m.den = 0 THEN NaNQuaternion
  ELSE
    LET e == m.el
        trace == e[1][1] + e[2][2] + e[3][3]
    IN  IF trace > 0
        THEN LET r == btSqrt(trace + m.den)
             IN  [x |-> (e[3][2] - e[2][3]) \div (2 * r),
                  y |-> (e[1][3] - e[3][1]) \div (2 * r),
                  z |-> (e[2][1] - e[1][2]) \div (2 * r),
                  w |-> r \div 2,
                  d |-> m.den]
        ELSE LET i == IF e[1][1] < e[2][2]
                      THEN (IF e[2][2] < e[3][3] THEN 3 ELSE 2)
                      ELSE (IF e[1][1] < e[3][3] THEN 3 ELSE 1)
                 j == (i % 3) + 1
                 k == ((i + 1) % 3) + 1
                 r == btSqrt(e[i][i] - e[j][j] - e[k][k] + m.den)
                 temp == [c \in 1..4 |->
                            IF c = i THEN r \div 2
                            ELSE IF c = 4 THEN (e[k][j] - e[j][k]) \div (2 * r)
                            ELSE IF c = j THEN (e[j][i] + e[i][j]) \div (2 * r)
                            ELSE (e[k][i] + e[i][k]) \div (2 * r)]
             IN  [x |-> temp[1], y |-> temp[2], z |-> temp[3], w |-> temp[4],
                  d |-> m.den]

\* Transform(q, c): the basis is the rotation matrix of q, the origin is c
Transform(q, c) == [basis |-> setRotation(q), origin |-> c]

getOrigin(t) == t.origin

\* StampedTransform(input, timestamp, frame_id, child_frame_id)
StampedTransform(input, timestamp, frame_id, child_frame_id) ==
  [data |-> input, stamp_ |-> timestamp, frame_id_ |-> frame_id,
   child_frame_id_ |-> child_frame_id]

VectorIn == {Vector3(x, y, z) : x \in VComp, y \in VComp, z \in VComp}
TranslationIn == {Vector3(SCALE, 0, -HALF), Vector3(0, HALF, SCALE)}
ChildFrames == {"base", "laser"}
\* the header and child_frame_id of the TransformStamped inputs
TransformHeaders == {[header |-> Header(Time(1, 0), "map"), child |-> "base"],
                     [header |-> Header(Time(1, 5), "base"), child |-> "laser"]}
\* the rotations of the Transform and Pose inputs
RotationIn == QuaternionOver(QCompSigned)

----------------------------------------------------------------------------
(* Vector3 and Point conversions *)

\* vector3MsgToTF2(msg_v, bt_v)
vector3MsgToTF2(msg_v) == [bt |-> Vector3(msg_v.x, msg_v.y, msg_v.z), warn |-> <<>>]

\* variant (used to test the properties): msg_v.y and msg_v.z are filled from the wrong components
vector3TF2ToMsg_SwapYZ(bt_v) ==
  [msg |-> [x |-> bt_v.x, y |-> bt_v.z, z |-> bt_v.y], warn |-> <<>>]

\* vector3TF2ToMsg(bt_v, msg_v)
vector3TF2ToMsg(bt_v) == [msg |-> [x |-> bt_v.x, y |-> bt_v.y, z |-> bt_v.z], warn |-> <<>>]

\* vector3StampedMsgToTF2(msg, bt)
vector3StampedMsgToTF2(msg, bt) ==
  LET r == vector3MsgToTF2(msg.vector)
  IN  [bt |-> [bt EXCEPT !.data = r.bt,
                         !.stamp_ = msg.header.stamp,
                         !.frame_id_ = msg.header.frame_id],
       warn |-> r.warn]

\* vector3StampedTF2ToMsg(bt, msg)
vector3StampedTF2ToMsg(bt, msg) ==
  LET r == vector3TF2ToMsg(bt.data)
  IN  [msg |-> [msg EXCEPT !.vector = r.msg,
                           !.header.stamp = bt.stamp_,
                           !.header.frame_id = bt.frame_id_],
       warn |-> r.warn]

\* pointMsgToTF2(msg_v, bt_v)
pointMsgToTF2(msg_v) == [bt |-> Vector3(msg_v.x, msg_v.y, msg_v.z), warn |-> <<>>]

\* pointTF2ToMsg(bt_v, msg_v)
pointTF2ToMsg(bt_v) == [msg |-> [x |-> bt_v.x, y |-> bt_v.y, z |-> bt_v.z], warn |-> <<>>]

\* pointStampedMsgToTF2(msg, bt)
pointStampedMsgToTF2(msg, bt) ==
  LET r == pointMsgToTF2(msg.point)
  IN  [bt |-> [bt EXCEPT !.data = r.bt,
                         !.stamp_ = msg.header.stamp,
                         !.frame_id_ = msg.header.frame_id],
       warn |-> r.warn]

\* pointStampedTF2ToMsg(bt, msg)
pointStampedTF2ToMsg(bt, msg) ==
  LET r == pointTF2ToMsg(bt.data)
  IN  [msg |-> [msg EXCEPT !.point = r.msg,
                           !.header.stamp = bt.stamp_,
                           !.header.frame_id = bt.frame_id_],
       warn |-> r.warn]

----------------------------------------------------------------------------
(* Transform and Pose conversions *)

\* variant (used to test the properties): the rotation is converted by quaternionMsgToTF2, with its check
transformMsgToTF2_Checked(msg) ==
  LET r == quaternionMsgToTF2(msg.rotation)
  IN  [bt |-> Transform(r.bt,
                        Vector3(msg.translation.x, msg.translation.y, msg.translation.z)),
       warn |-> r.warn]

\* variant (used to test the properties): the Quaternion is built from (w, x, y, z) in place of (x, y, z, w)
transformMsgToTF2_WFirst(msg) ==
  [bt |-> Transform([x |-> msg.rotation.w, y |-> msg.rotation.x,
                     z |-> msg.rotation.y, w |-> msg.rotation.z,
                     d |-> msg.rotation.d],
                    Vector3(msg.translation.x, msg.translation.y, msg.translation.z)),
   warn |-> <<>>]

\* transformMsgToTF2(msg, bt)
transformMsgToTF2(msg) ==
  [bt |-> Transform([x |-> msg.rotation.x, y |-> msg.rotation.y,
                     z |-> msg.rotation.z, w |-> msg.rotation.w,
                     d |-> msg.rotation.d],
                    Vector3(msg.translation.x, msg.translation.y, msg.translation.z)),
   warn |-> <<>>]

\* transformTF2ToMsg(bt, msg)
transformTF2ToMsg(bt) ==
  LET v == vector3TF2ToMsg(getOrigin(bt))
      q == quaternionTF2ToMsg(getRotation(bt.basis))
  IN  [msg |-> [translation |-> v.msg, rotation |-> q.msg],
       warn |-> v.warn \o q.warn]

\* variant (used to test the properties): child_frame_id_ is filled from header.frame_id
transformStampedMsgToTF2_WrongChild(msg, bt) ==
  [bt |-> [bt EXCEPT !.data = Transform(msg.transform.rotation,
                                        msg.transform.translation),
                     !.stamp_ = msg.header.stamp,
                     !.frame_id_ = msg.header.frame_id,
                     !.child_frame_id_ = msg.header.frame_id],
   warn |-> <<>>]

\* transformStampedMsgToTF2(msg, bt)
transformStampedMsgToTF2(msg, bt) ==
  LET r == transformMsgToTF2(msg.transform)
  IN  [bt |-> [bt EXCEPT !.data = r.bt,
                         !.stamp_ = msg.header.stamp,
                         !.frame_id_ = msg.header.frame_id,
                         !.child_frame_id_ = msg.child_frame_id],
       warn |-> r.warn]

\* transformStampedTF2ToMsg(bt, msg)
transformStampedTF2ToMsg(bt, msg) ==
  LET r == transformTF2ToMsg(bt.data)
  IN  [msg |-> [msg EXCEPT !.transform = r.msg,
                           !.header.stamp = bt.stamp_,
                           !.header.frame_id = bt.frame_id_,
                           !.child_frame_id = bt.child_frame_id_],
       warn |-> r.warn]

\* poseMsgToTF2(msg, bt)
poseMsgToTF2(msg) ==
  [bt |-> Transform([x |-> msg.orientation.x, y |-> msg.orientation.y,
                     z |-> msg.orientation.z, w |-> msg.orientation.w,
                     d |-> msg.orientation.d],
                    Vector3(msg.position.x, msg.position.y, msg.position.z)),
   warn |-> <<>>]

\* poseTF2ToMsg(bt, msg)
poseTF2ToMsg(bt) ==
  LET v == pointTF2ToMsg(getOrigin(bt))
      q == quaternionTF2ToMsg(getRotation(bt.basis))
  IN  [msg |-> [position |-> v.msg, orientation |-> q.msg],
       warn |-> v.warn \o q.warn]

\* poseStampedMsgToTF2(msg, bt)
poseStampedMsgToTF2(msg, bt) ==
  LET r == poseMsgToTF2(msg.pose)
  IN  [bt |-> [bt EXCEPT !.data = r.bt,
                         !.stamp_ = msg.header.stamp,
                         !.frame_id_ = msg.header.frame_id],
       warn |-> r.warn]

\* poseStampedTF2ToMsg(bt, msg)
poseStampedTF2ToMsg(bt, msg) ==
  LET r == poseTF2ToMsg(bt.data)
  IN  [msg |-> [msg EXCEPT !.pose = r.msg,
                           !.header.stamp = bt.stamp_,
                           !.header.frame_id = bt.frame_id_],
       warn |-> r.warn]

----------------------------------------------------------------------------
(* Stamped<T> and StampedTransform *)

\* variant (used to test the properties): the whole object is assigned from a Stamped built around input
setData_Reconstruct(this, input) == Stamped(input, Time(0, 0), NO_ID)

\* Stamped<T>::setData(input): *static_cast<T*>(this) = input
setData(this, input) == [this EXCEPT !.data = input]

\* StampedTransform::setData(input)
StampedTransform_setData(this, input) == [this EXCEPT !.data = input]

\* ros::Time operator==
TimeEq(a, b) == a.sec = b.sec /\ a.nsec = b.nsec

\* btVector3 operator==
Vector3Eq(a, b) == a.x = b.x /\ a.y = b.y /\ a.z = b.z

\* variant (used to test the properties): the timestamps are not compared
StampedEq_NoStamp(a, b) ==
  a.frame_id_ = b.frame_id_ /\ Vector3Eq(a.data, b.data)

\* operator==(const Stamped<T> &a, const Stamped<T> &b), T = Point
StampedEq(a, b) ==
  a.frame_id_ = b.frame_id_ /\ TimeEq(a.stamp_, b.stamp_) /\ Vector3Eq(a.data, b.data)

----------------------------------------------------------------------------
(* The calling program: it holds the objects of one family and calls the    *)
(* functions of that family on them, in any order.  Every MsgToTF2 call     *)
(* reads the input message and writes the bt object; every TF2ToMsg call    *)
(* reads the bt object and writes the output message.                       *)

CanLog(w) == Len(log) + Len(w) <= MaxLog

Identity == Quaternion(0, 0, 0, SCALE)
Zero3 == Vector3(0, 0, 0)

QuaternionStampedMsg(h, q) == [header |-> h, quaternion |-> q]
Vector3StampedMsg(h, v) == [header |-> h, vector |-> v]
PointStampedMsg(h, v) == [header |-> h, point |-> v]
TransformMsg(v, q) == [translation |-> v, rotation |-> q]
TransformStampedMsg(h, c, t) == [header |-> h, child_frame_id |-> c, transform |-> t]
PoseMsg(v, q) == [position |-> v, orientation |-> q]
PoseStampedMsg(h, t) == [header |-> h, pose |-> t]

\* the objects of a family the program does not use
IdleQ ==
  /\ q_msg = QuaternionStampedMsg(DefaultHeader, Identity)
  /\ q_bt = Stamped(Identity, Time(0, 0), NO_ID)
  /\ q_out = QuaternionStampedMsg(DefaultHeader, DefaultQuaternionMsg)
IdleV ==
  /\ v_msg = Vector3StampedMsg(DefaultHeader, Zero3)
  /\ v_bt = Stamped(Zero3, Time(0, 0), NO_ID)
  /\ v_out = Vector3StampedMsg(DefaultHeader, Zero3)
IdleP ==
  /\ p_msg = PointStampedMsg(DefaultHeader, Zero3)
  /\ p_bt = Stamped(Zero3, Time(0, 0), NO_ID)
  /\ p_out = PointStampedMsg(DefaultHeader, Zero3)
IdleT ==
  /\ t_msg = TransformStampedMsg(DefaultHeader, "", TransformMsg(Zero3, Identity))
  /\ t_bt = StampedTransform(Transform(Identity, Zero3), Time(0, 0), "", "")
  /\ t_out = TransformStampedMsg(DefaultHeader, "", TransformMsg(Zero3, DefaultQuaternionMsg))
IdleO ==
  /\ o_msg = PoseStampedMsg(DefaultHeader, PoseMsg(Zero3, Identity))
  /\ o_bt = Stamped(Transform(Identity, Zero3), Time(0, 0), NO_ID)
  /\ o_out = PoseStampedMsg(DefaultHeader, PoseMsg(Zero3, DefaultQuaternionMsg))
IdleS ==
  /\ sa = Stamped(Zero3, Time(0, 0), NO_ID)
  /\ sb = Stamped(Zero3, Time(0, 0), NO_ID)
  /\ st = StampedTransform(Transform(Identity, Zero3), Time(0, 0), "", "")
  /\ cmp = <<>>
IdleTh ==
  /\ th_op = <<>>
  /\ th_pc = <<>>
  /\ th_in = <<>>
  /\ th_out = <<>>
  /\ th_temp = <<>>

\* the program either fills a message and converts it, or builds the bt object
InitQuaternion ==
  /\ family = "quaternion"
  /\ \/ /\ q_msg \in {QuaternionStampedMsg(h, q) : h \in Headers, q \in QuaternionIn}
        /\ q_bt = Stamped(Identity, Time(0, 0), NO_ID)
     \/ /\ q_msg = QuaternionStampedMsg(DefaultHeader, Identity)
        /\ q_bt \in {Stamped(q, h.stamp, h.frame_id) : h \in Headers, q \in QuaternionIn}
  /\ q_out = QuaternionStampedMsg(DefaultHeader, DefaultQuaternionMsg)
  /\ IdleV /\ IdleP /\ IdleT /\ IdleO /\ IdleS /\ IdleTh

InitVector3 ==
  /\ family = "vector3"
  /\ \/ /\ v_msg \in {Vector3StampedMsg(h, v) : h \in Headers, v \in VectorIn}
        /\ v_bt = Stamped(Zero3, Time(0, 0), NO_ID)
     \/ /\ v_msg = Vector3StampedMsg(DefaultHeader, Zero3)
        /\ v_bt \in {Stamped(v, h.stamp, h.frame_id) : h \in Headers, v \in VectorIn}
  /\ v_out = Vector3StampedMsg(DefaultHeader, Zero3)
  /\ IdleQ /\ IdleP /\ IdleT /\ IdleO /\ IdleS /\ IdleTh

InitPoint ==
  /\ family = "point"
  /\ \/ /\ p_msg \in {PointStampedMsg(h, v) : h \in Headers, v \in VectorIn}
        /\ p_bt = Stamped(Zero3, Time(0, 0), NO_ID)
     \/ /\ p_msg = PointStampedMsg(DefaultHeader, Zero3)
        /\ p_bt \in {Stamped(v, h.stamp, h.frame_id) : h \in Headers, v \in VectorIn}
  /\ p_out = PointStampedMsg(DefaultHeader, Zero3)
  /\ IdleQ /\ IdleV /\ IdleT /\ IdleO /\ IdleS /\ IdleTh

InitTransform ==
  /\ family = "transform"
  /\ \/ /\ t_msg \in {TransformStampedMsg(h.header, h.child, TransformMsg(v, q)) :
                        h \in TransformHeaders, v \in TranslationIn, q \in RotationIn}
        /\ t_bt = StampedTransform(Transform(Identity, Zero3), Time(0, 0), "", "")
     \/ /\ t_msg = TransformStampedMsg(DefaultHeader, "", TransformMsg(Zero3, Identity))
        /\ t_bt \in {StampedTransform(Transform(q, v), h.header.stamp,
                                       h.header.frame_id, h.child) :
                       h \in TransformHeaders, v \in TranslationIn, q \in RotationIn}
  /\ t_out = TransformStampedMsg(DefaultHeader, "", TransformMsg(Zero3, DefaultQuaternionMsg))
  /\ IdleQ /\ IdleV /\ IdleP /\ IdleO /\ IdleS /\ IdleTh

InitPose ==
  /\ family = "pose"
  /\ \/ /\ o_msg \in {PoseStampedMsg(h, PoseMsg(v, q)) :
                        h \in Headers, v \in TranslationIn, q \in RotationIn}
        /\ o_bt = Stamped(Transform(Identity, Zero3), Time(0, 0), NO_ID)
     \/ /\ o_msg = PoseStampedMsg(DefaultHeader, PoseMsg(Zero3, Identity))
        /\ o_bt \in {Stamped(Transform(q, v), h.stamp, h.frame_id) :
                       h \in Headers, v \in TranslationIn, q \in RotationIn}
  /\ o_out = PoseStampedMsg(DefaultHeader, PoseMsg(Zero3, DefaultQuaternionMsg))
  /\ IdleQ /\ IdleV /\ IdleP /\ IdleT /\ IdleS /\ IdleTh

\* the values the wrappers are built with, and the values passed to setData
PointInit == {Vector3(0, 0, 0), Vector3(SCALE, 0, 0)}
NewPoint == Vector3(SCALE, HALF, -SCALE)
PointArgs == PointInit \cup {NewPoint}
NewTransform == Transform(Quaternion(HALF, HALF, HALF, HALF), Vector3(SCALE, 0, -HALF))
TransformArgs == {Transform(Identity, Zero3), NewTransform}

InitStamped ==
  /\ family = "stamped"
  /\ sa \in {Stamped(v, h.stamp, h.frame_id) : h \in AllHeaders, v \in PointInit}
  /\ sb \in {Stamped(v, h.stamp, h.frame_id) : h \in AllHeaders, v \in PointArgs}
  /\ st \in {StampedTransform(Transform(Identity, Zero3), h.stamp, h.frame_id, c) :
               h \in Headers, c \in ChildFrames}
  /\ cmp = <<>>
  /\ IdleQ /\ IdleV /\ IdleP /\ IdleT /\ IdleO /\ IdleTh

(* quaternion family *)

Call_quaternionMsgToTF2 ==
  /\ family = "quaternion"
  /\ LET r == quaternionMsgToTF2(q_msg.quaternion)
     IN  /\ CanLog(r.warn)
         /\ q_bt' = [q_bt EXCEPT !.data = r.bt]
         /\ log' = log \o r.warn
  /\ UNCHANGED <<family, q_msg, q_out, vvars, pvars, tvars, ovars, svars, thvars>>

Call_quaternionTF2ToMsg ==
  /\ family = "quaternion"
  /\ LET r == quaternionTF2ToMsg(q_bt.data)
     IN  /\ CanLog(r.warn)
         /\ q_out' = [q_out EXCEPT !.quaternion = r.msg]
         /\ log' = log \o r.warn
  /\ UNCHANGED <<family, q_msg, q_bt, vvars, pvars, tvars, ovars, svars, thvars>>

Call_quaternionStampedMsgToTF2 ==
  /\ family = "quaternion"
  /\ LET r == quaternionStampedMsgToTF2(q_msg, q_bt)
     IN  /\ CanLog(r.warn)
         /\ q_bt' = r.bt
         /\ log' = log \o r.warn
  /\ UNCHANGED <<family, q_msg, q_out, vvars, pvars, tvars, ovars, svars, thvars>>

Call_quaternionStampedTF2ToMsg ==
  /\ family = "quaternion"
  /\ LET r == quaternionStampedTF2ToMsg(q_bt, q_out)
     IN  /\ CanLog(r.warn)
         /\ q_out' = r.msg
         /\ log' = log \o r.warn
  /\ UNCHANGED <<family, q_msg, q_bt, vvars, pvars, tvars, ovars, svars, thvars>>

(* vector3 family *)

Call_vector3MsgToTF2 ==
  /\ family = "vector3"
  /\ LET r == vector3MsgToTF2(v_msg.vector)
     IN  /\ CanLog(r.warn)
         /\ v_bt' = [v_bt EXCEPT !.data = r.bt]
         /\ log' = log \o r.warn
  /\ UNCHANGED <<family, v_msg, v_out, qvars, pvars, tvars, ovars, svars, thvars>>

Call_vector3TF2ToMsg ==
  /\ family = "vector3"
  /\ LET r == vector3TF2ToMsg(v_bt.data)
     IN  /\ CanLog(r.warn)
         /\ v_out' = [v_out EXCEPT !.vector = r.msg]
         /\ log' = log \o r.warn
  /\ UNCHANGED <<family, v_msg, v_bt, qvars, pvars, tvars, ovars, svars, thvars>>

Call_vector3StampedMsgToTF2 ==
  /\ family = "vector3"
  /\ LET r == vector3StampedMsgToTF2(v_msg, v_bt)
     IN  /\ CanLog(r.warn)
         /\ v_bt' = r.bt
         /\ log' = log \o r.warn
  /\ UNCHANGED <<family, v_msg, v_out, qvars, pvars, tvars, ovars, svars, thvars>>

Call_vector3StampedTF2ToMsg ==
  /\ family = "vector3"
  /\ LET r == vector3StampedTF2ToMsg(v_bt, v_out)
     IN  /\ CanLog(r.warn)
         /\ v_out' = r.msg
         /\ log' = log \o r.warn
  /\ UNCHANGED <<family, v_msg, v_bt, qvars, pvars, tvars, ovars, svars, thvars>>

(* point family *)

Call_pointMsgToTF2 ==
  /\ family = "point"
  /\ LET r == pointMsgToTF2(p_msg.point)
     IN  /\ CanLog(r.warn)
         /\ p_bt' = [p_bt EXCEPT !.data = r.bt]
         /\ log' = log \o r.warn
  /\ UNCHANGED <<family, p_msg, p_out, qvars, vvars, tvars, ovars, svars, thvars>>

Call_pointTF2ToMsg ==
  /\ family = "point"
  /\ LET r == pointTF2ToMsg(p_bt.data)
     IN  /\ CanLog(r.warn)
         /\ p_out' = [p_out EXCEPT !.point = r.msg]
         /\ log' = log \o r.warn
  /\ UNCHANGED <<family, p_msg, p_bt, qvars, vvars, tvars, ovars, svars, thvars>>

Call_pointStampedMsgToTF2 ==
  /\ family = "point"
  /\ LET r == pointStampedMsgToTF2(p_msg, p_bt)
     IN  /\ CanLog(r.warn)
         /\ p_bt' = r.bt
         /\ log' = log \o r.warn
  /\ UNCHANGED <<family, p_msg, p_out, qvars, vvars, tvars, ovars, svars, thvars>>

Call_pointStampedTF2ToMsg ==
  /\ family = "point"
  /\ LET r == pointStampedTF2ToMsg(p_bt, p_out)
     IN  /\ CanLog(r.warn)
         /\ p_out' = r.msg
         /\ log' = log \o r.warn
  /\ UNCHANGED <<family, p_msg, p_bt, qvars, vvars, tvars, ovars, svars, thvars>>

(* transform family *)

Call_transformMsgToTF2 ==
  /\ family = "transform"
  /\ LET r == transformMsgToTF2(t_msg.transform)
     IN  /\ CanLog(r.warn)
         /\ t_bt' = [t_bt EXCEPT !.data = r.bt]
         /\ log' = log \o r.warn
  /\ UNCHANGED <<family, t_msg, t_out, qvars, vvars, pvars, ovars, svars, thvars>>

Call_transformTF2ToMsg ==
  /\ family = "transform"
  /\ LET r == transformTF2ToMsg(t_bt.data)
     IN  /\ CanLog(r.warn)
         /\ t_out' = [t_out EXCEPT !.transform = r.msg]
         /\ log' = log \o r.warn
  /\ UNCHANGED <<family, t_msg, t_bt, qvars, vvars, pvars, ovars, svars, thvars>>

Call_transformStampedMsgToTF2 ==
  /\ family = "transform"
  /\ LET r == transformStampedMsgToTF2(t_msg, t_bt)
     IN  /\ CanLog(r.warn)
         /\ t_bt' = r.bt
         /\ log' = log \o r.warn
  /\ UNCHANGED <<family, t_msg, t_out, qvars, vvars, pvars, ovars, svars, thvars>>

Call_transformStampedTF2ToMsg ==
  /\ family = "transform"
  /\ LET r == transformStampedTF2ToMsg(t_bt, t_out)
     IN  /\ CanLog(r.warn)
         /\ t_out' = r.msg
         /\ log' = log \o r.warn
  /\ UNCHANGED <<family, t_msg, t_bt, qvars, vvars, pvars, ovars, svars, thvars>>

(* pose family *)

Call_poseMsgToTF2 ==
  /\ family = "pose"
  /\ LET r == poseMsgToTF2(o_msg.pose)
     IN  /\ CanLog(r.warn)
         /\ o_bt' = [o_bt EXCEPT !.data = r.bt]
         /\ log' = log \o r.warn
  /\ UNCHANGED <<family, o_msg, o_out, qvars, vvars, pvars, tvars, svars, thvars>>

Call_poseTF2ToMsg ==
  /\ family = "pose"
  /\ LET r == poseTF2ToMsg(o_bt.data)
     IN  /\ CanLog(r.warn)
         /\ o_out' = [o_out EXCEPT !.pose = r.msg]
         /\ log' = log \o r.warn
  /\ UNCHANGED <<family, o_msg, o_bt, qvars, vvars, pvars, tvars, svars, thvars>>

Call_poseStampedMsgToTF2 ==
  /\ family = "pose"
  /\ LET r == poseStampedMsgToTF2(o_msg, o_bt)
     IN  /\ CanLog(r.warn)
         /\ o_bt' = r.bt
         /\ log' = log \o r.warn
  /\ UNCHANGED <<family, o_msg, o_out, qvars, vvars, pvars, tvars, svars, thvars>>

Call_poseStampedTF2ToMsg ==
  /\ family = "pose"
  /\ LET r == poseStampedTF2ToMsg(o_bt, o_out)
     IN  /\ CanLog(r.warn)
         /\ o_out' = r.msg
         /\ log' = log \o r.warn
  /\ UNCHANGED <<family, o_msg, o_bt, qvars, vvars, pvars, tvars, svars, thvars>>

(* stamped family *)

\* sa.setData(input)
Call_setData(input) ==
  /\ family = "stamped"
  /\ sa' = setData(sa, input)
  /\ UNCHANGED <<family, sb, st, cmp, qvars, vvars, pvars, tvars, ovars, thvars, log>>

\* st.setData(input)
Call_StampedTransform_setData(input) ==
  /\ family = "stamped"
  /\ st' = StampedTransform_setData(st, input)
  /\ UNCHANGED <<family, sa, sb, cmp, qvars, vvars, pvars, tvars, ovars, thvars, log>>

\* sa == sb
Call_StampedEq ==
  /\ family = "stamped"
  /\ cmp' = <<[lhs |-> sa, rhs |-> sb, result |-> StampedEq(sa, sb)]>>
  /\ UNCHANGED <<family, sa, sb, st, qvars, vvars, pvars, tvars, ovars, thvars, log>>

----------------------------------------------------------------------------
(* Threads: each thread makes one call of quaternionMsgToTF2 or of          *)
(* quaternionTF2ToMsg on arguments of its own, one statement at a time.     *)

Threads == 1..NThreads

ThreadIn == {Identity, Quaternion(SCALE, SCALE, 0, 0), Quaternion(0, 0, 0, 0),
             Quaternion(CompB, 0, 0, 0), Quaternion(0, -HALF, 0, 0)}

\* variant (used to test the properties): bt_temp is a static variable, one for all calls
TempSlot_Static(t) == 1

\* Quaternion bt_temp is an automatic variable: every call has its own
TempSlot(t) == t

InitThreads ==
  /\ family = "threads"
  /\ th_op \in [Threads -> {"quaternionMsgToTF2", "quaternionTF2ToMsg"}]
  /\ th_in \in [Threads -> ThreadIn]
  /\ th_pc = [t \in Threads |-> "call"]
  /\ th_out = [t \in Threads |-> DefaultQuaternionMsg]
  /\ th_temp = [t \in Threads |-> DefaultQuaternionMsg]
  /\ IdleQ /\ IdleV /\ IdleP /\ IdleT /\ IdleO /\ IdleS

ThreadFrame == <<family, qvars, vvars, pvars, tvars, ovars, svars, th_op, th_in>>

\* bt = Quaternion(msg.x, msg.y, msg.z, msg.w);
MsgToTF2_Construct(t) ==
  /\ family = "threads" /\ th_op[t] = "quaternionMsgToTF2" /\ th_pc[t] = "call"
  /\ th_out' = [th_out EXCEPT ![t] = [x |-> th_in[t].x, y |-> th_in[t].y,
                                      z |-> th_in[t].z, w |-> th_in[t].w,
                                      d |-> th_in[t].d]]
  /\ th_pc' = [th_pc EXCEPT ![t] = "check"]
  /\ UNCHANGED <<ThreadFrame, th_temp, log>>

\* if (fabs(bt.length2() - 1) > QUATERNION_TOLERANCE)
MsgToTF2_Check(t) ==
  /\ family = "threads" /\ th_op[t] = "quaternionMsgToTF2" /\ th_pc[t] = "check"
  /\ th_pc' = [th_pc EXCEPT ![t] =
                 IF FabsMinus1Exceeds(length2(th_out[t]), QUATERNION_TOLERANCE)
                 THEN "warn" ELSE "done"]
  /\ UNCHANGED <<ThreadFrame, th_out, th_temp, log>>

\* ROS_WARN("MSG to TF2: Quaternion Not Properly Normalized");
MsgToTF2_Warn(t) ==
  /\ family = "threads" /\ th_op[t] = "quaternionMsgToTF2" /\ th_pc[t] = "warn"
  /\ log' = Append(log, WARN_MSG_TO_TF2)
  /\ th_pc' = [th_pc EXCEPT ![t] = "normalize"]
  /\ UNCHANGED <<ThreadFrame, th_out, th_temp>>

\* bt.normalize();
MsgToTF2_Normalize(t) ==
  /\ family = "threads" /\ th_op[t] = "quaternionMsgToTF2" /\ th_pc[t] = "normalize"
  /\ th_out' = [th_out EXCEPT ![t] = normalize(th_out[t])]
  /\ th_pc' = [th_pc EXCEPT ![t] = "done"]
  /\ UNCHANGED <<ThreadFrame, th_temp, log>>

\* if (fabs(bt.length2() - 1) > QUATERNION_TOLERANCE)
TF2ToMsg_Check(t) ==
  /\ family = "threads" /\ th_op[t] = "quaternionTF2ToMsg" /\ th_pc[t] = "call"
  /\ th_pc' = [th_pc EXCEPT ![t] =
                 IF FabsMinus1Exceeds(length2(th_in[t]), QUATERNION_TOLERANCE)
                 THEN "warn" ELSE "copy"]
  /\ UNCHANGED <<ThreadFrame, th_out, th_temp, log>>

\* ROS_WARN("TF2 to MSG: Quaternion Not Properly Normalized");
TF2ToMsg_Warn(t) ==
  /\ family = "threads" /\ th_op[t] = "quaternionTF2ToMsg" /\ th_pc[t] = "warn"
  /\ log' = Append(log, WARN_TF2_TO_MSG)
  /\ th_pc' = [th_pc EXCEPT ![t] = "temp"]
  /\ UNCHANGED <<ThreadFrame, th_out, th_temp>>

\* Quaternion bt_temp = bt;
TF2ToMsg_Temp(t) ==
  /\ family = "threads" /\ th_op[t] = "quaternionTF2ToMsg" /\ th_pc[t] = "temp"
  /\ th_temp' = [th_temp EXCEPT ![TempSlot(t)] = th_in[t]]
  /\ th_pc' = [th_pc EXCEPT ![t] = "normalize"]
  /\ UNCHANGED <<ThreadFrame, th_out, log>>

\* bt_temp.normalize();
TF2ToMsg_Normalize(t) ==
  /\ family = "threads" /\ th_op[t] = "quaternionTF2ToMsg" /\ th_pc[t] = "normalize"
  /\ th_temp' = [th_temp EXCEPT ![TempSlot(t)] = normalize(th_temp[TempSlot(t)])]
  /\ th_pc' = [th_pc EXCEPT ![t] = "write"]
  /\ UNCHANGED <<ThreadFrame, th_out, log>>

\* msg.x = bt_temp.x(); msg.y = bt_temp.y(); msg.z = bt_temp.z(); msg.w = bt_temp.w();
TF2ToMsg_WriteTemp(t) ==
  /\ family = "threads" /\ th_op[t] = "quaternionTF2ToMsg" /\ th_pc[t] = "write"
  /\ LET bt == th_temp[TempSlot(t)]
     IN  th_out' = [th_out EXCEPT ![t] = [x |-> bt.x, y |-> bt.y, z |-> bt.z,
                                          w |-> bt.w, d |-> bt.d]]
  /\ th_pc' = [th_pc EXCEPT ![t] = "done"]
  /\ UNCHANGED <<ThreadFrame, th_temp, log>>

\* msg.x = bt.x(); msg.y = bt.y(); msg.z = bt.z(); msg.w = bt.w();
TF2ToMsg_Write(t) ==
  /\ family = "threads" /\ th_op[t] = "quaternionTF2ToMsg" /\ th_pc[t] = "copy"
  /\ th_out' = [th_out EXCEPT ![t] = [x |-> th_in[t].x, y |-> th_in[t].y,
                                      z |-> th_in[t].z, w |-> th_in[t].w,
                                      d |-> th_in[t].d]]
  /\ th_pc' = [th_pc EXCEPT ![t] = "done"]
  /\ UNCHANGED <<ThreadFrame, th_temp, log>>

ThreadStep(t) ==
  \/ MsgToTF2_Construct(t)
  \/ MsgToTF2_Check(t)
  \/ MsgToTF2_Warn(t)
  \/ MsgToTF2_Normalize(t)
  \/ TF2ToMsg_Check(t)
  \/ TF2ToMsg_Warn(t)
  \/ TF2ToMsg_Temp(t)
  \/ TF2ToMsg_Normalize(t)
  \/ TF2ToMsg_WriteTemp(t)
  \/ TF2ToMsg_Write(t)

----------------------------------------------------------------------------
(* Specification *)

Init ==
  /\ log = <<>>
  /\ \/ InitQuaternion
     \/ InitVector3
     \/ InitPoint
     \/ InitTransform
     \/ InitPose
     \/ InitStamped
     \/ InitThreads

Next ==
  \/ Call_quaternionMsgToTF2
  \/ Call_quaternionTF2ToMsg
  \/ Call_quaternionStampedMsgToTF2
  \/ Call_quaternionStampedTF2ToMsg
  \/ Call_vector3MsgToTF2
  \/ Call_vector3TF2ToMsg
  \/ Call_vector3StampedMsgToTF2
  \/ Call_vector3StampedTF2ToMsg
  \/ Call_pointMsgToTF2
  \/ Call_pointTF2ToMsg
  \/ Call_pointStampedMsgToTF2
  \/ Call_pointStampedTF2ToMsg
  \/ Call_transformMsgToTF2
  \/ Call_transformTF2ToMsg
  \/ Call_transformStampedMsgToTF2
  \/ Call_transformStampedTF2ToMsg
  \/ Call_poseMsgToTF2
  \/ Call_poseTF2ToMsg
  \/ Call_poseStampedMsgToTF2
  \/ Call_poseStampedTF2ToMsg
  \/ \E v \in PointArgs \cup {sb.data} : Call_setData(v)
  \/ \E v \in TransformArgs : Call_StampedTransform_setData(v)
  \/ Call_StampedEq
  \/ \E t \in Threads : ThreadStep(t)

Spec == Init /\ [][Next]_vars

----------------------------------------------------------------------------
(* Properties *)

\* the squared length of q differs from 1 by more than 0.1 (10 * |n - d| > d)
DiffersMoreThanTenth(q) == q.d # 0 /\ Abs(SumSq(q) - q.d) > q.d \div 10

\* the squared length of q is within 0.1 of 1
WithinTenth(q) == q.d # 0 /\ Abs(SumSq(q) - q.d) <= q.d \div 10

\* q has unit norm
IsUnit(q) == q.d # 0 /\ SumSq(q) = q.d

Fields(q) == [x |-> q.x, y |-> q.y, z |-> q.z, w |-> q.w, d |-> q.d]

Neg(q) == [x |-> -q.x, y |-> -q.y, z |-> -q.z, w |-> -q.w, d |-> q.d]

\* C1: a call of quaternionMsgToTF2 on a message whose squared length differs from 1
\* by more than 0.1 leaves a unit-norm Quaternion in bt, adds exactly one warning to
\* the log and leaves the message as it was.
C1_MsgToTF2Normalizes ==
  [][(Call_quaternionMsgToTF2 /\ DiffersMoreThanTenth(q_msg.quaternion))
       => /\ IsUnit(q_bt'.data)
          /\ Len(log') = Len(log) + 1
          /\ q_msg' = q_msg]_vars

\* C2: a call of quaternionTF2ToMsg on a Quaternion whose squared length differs from
\* 1 by more than 0.1 adds exactly one warning to the log, writes the components of
\* the normalized copy into the message and leaves the Quaternion as it was.
C2_TF2ToMsgNormalizes ==
  [][(Call_quaternionTF2ToMsg /\ DiffersMoreThanTenth(q_bt.data))
       => /\ Len(log') = Len(log) + 1
          /\ q_out'.quaternion = Fields(normalize(q_bt.data))
          /\ q_bt' = q_bt]_vars

\* C3: for a message whose squared length is within 0.1 of 1, quaternionMsgToTF2
\* emits no warning, and quaternionTF2ToMsg applied to the Quaternion it produced
\* emits no warning and writes the original x, y, z, w.
C3_QuaternionRoundTrip ==
  [][WithinTenth(q_msg.quaternion)
       => /\ Call_quaternionMsgToTF2 => log' = log
          /\ (Call_quaternionTF2ToMsg
                /\ q_bt.data = quaternionMsgToTF2(q_msg.quaternion).bt)
               => (q_out'.quaternion = q_msg.quaternion /\ log' = log)]_vars

\* a round trip of a message that is within the tolerance but not of unit norm
C3_Witness ==
  /\ family = "quaternion"
  /\ WithinTenth(q_msg.quaternion) /\ ~IsUnit(q_msg.quaternion)
  /\ q_bt.data = Fields(q_msg.quaternion)
  /\ q_out.quaternion = q_msg.quaternion
  /\ log = <<>>

\* C4: the Vector3 and Point conversions emit no warning for any input, and the
\* TF2ToMsg conversion applied to what the MsgToTF2 conversion produced writes the
\* original x, y, z exactly.
C4_VectorPointRoundTrip ==
  [][/\ Call_vector3MsgToTF2 => log' = log
     /\ Call_vector3TF2ToMsg => log' = log
     /\ (Call_vector3TF2ToMsg /\ v_bt.data = vector3MsgToTF2(v_msg.vector).bt)
          => v_out'.vector = v_msg.vector
     /\ Call_pointMsgToTF2 => log' = log
     /\ Call_pointTF2ToMsg => log' = log
     /\ (Call_pointTF2ToMsg /\ p_bt.data = pointMsgToTF2(p_msg.point).bt)
          => p_out'.point = p_msg.point]_vars

\* a round trip of a Vector3 message with three different non-zero fields
C4_Witness ==
  /\ family = "vector3"
  /\ v_msg.vector = Vector3(HALF, -SCALE, 0)
  /\ v_bt.data = v_msg.vector
  /\ v_out.vector = v_msg.vector
  /\ log = <<>>

\* C5: every stamped conversion leaves in its output the timestamp and frame_id of
\* its input, and the TransformStamped conversions the child_frame_id too.
C5_HeaderCopied ==
  [][/\ Call_quaternionStampedMsgToTF2
          => (q_bt'.stamp_ = q_msg.header.stamp /\ q_bt'.frame_id_ = q_msg.header.frame_id)
     /\ Call_quaternionStampedTF2ToMsg
          => (q_out'.header.stamp = q_bt.stamp_ /\ q_out'.header.frame_id = q_bt.frame_id_)
     /\ Call_vector3StampedMsgToTF2
          => (v_bt'.stamp_ = v_msg.header.stamp /\ v_bt'.frame_id_ = v_msg.header.frame_id)
     /\ Call_vector3StampedTF2ToMsg
          => (v_out'.header.stamp = v_bt.stamp_ /\ v_out'.header.frame_id = v_bt.frame_id_)
     /\ Call_pointStampedMsgToTF2
          => (p_bt'.stamp_ = p_msg.header.stamp /\ p_bt'.frame_id_ = p_msg.header.frame_id)
     /\ Call_pointStampedTF2ToMsg
          => (p_out'.header.stamp = p_bt.stamp_ /\ p_out'.header.frame_id = p_bt.frame_id_)
     /\ Call_poseStampedMsgToTF2
          => (o_bt'.stamp_ = o_msg.header.stamp /\ o_bt'.frame_id_ = o_msg.header.frame_id)
     /\ Call_poseStampedTF2ToMsg
          => (o_out'.header.stamp = o_bt.stamp_ /\ o_out'.header.frame_id = o_bt.frame_id_)
     /\ Call_transformStampedMsgToTF2
          => /\ t_bt'.stamp_ = t_msg.header.stamp
             /\ t_bt'.frame_id_ = t_msg.header.frame_id
             /\ t_bt'.child_frame_id_ = t_msg.child_frame_id
     /\ Call_transformStampedTF2ToMsg
          => /\ t_out'.header.stamp = t_bt.stamp_
             /\ t_out'.header.frame_id = t_bt.frame_id_
             /\ t_out'.child_frame_id = t_bt.child_frame_id_]_vars

\* a QuaternionStamped message converted and converted back, with warnings emitted
C5_Witness ==
  /\ family = "quaternion"
  /\ q_msg.header = Header(Time(1, 5), "base")
  /\ q_bt.stamp_ = q_msg.header.stamp
  /\ q_bt.frame_id_ = q_msg.header.frame_id
  /\ q_out.header = q_msg.header
  /\ log # <<>>

\* C6: operator== on two Stamped<Point> returns true exactly when their frame_id_,
\* their stamp_ and their value are all equal.
C6_StampedEquality ==
  cmp # <<>> =>
    (cmp[1].result <=> /\ cmp[1].lhs.frame_id_ = cmp[1].rhs.frame_id_
                       /\ cmp[1].lhs.stamp_ = cmp[1].rhs.stamp_
                       /\ cmp[1].lhs.data = cmp[1].rhs.data)

\* two instances that differ in the nanoseconds of the timestamp only compared unequal
C6_Witness ==
  /\ cmp # <<>>
  /\ ~cmp[1].result
  /\ cmp[1].lhs.frame_id_ = cmp[1].rhs.frame_id_
  /\ cmp[1].lhs.data = cmp[1].rhs.data
  /\ cmp[1].lhs.data = NewPoint
  /\ cmp[1].lhs.stamp_.sec = cmp[1].rhs.stamp_.sec
  /\ cmp[1].lhs.stamp_.nsec # cmp[1].rhs.stamp_.nsec

\* C7 as stated: for a message with a unit-norm rotation, transformTF2ToMsg applied to
\* what transformMsgToTF2 produced writes the original translation and the original
\* rotation fields, and the same for the Pose conversions.
C7_TransformRoundTripFields ==
  [][/\ (/\ Call_transformTF2ToMsg
         /\ t_bt.data = transformMsgToTF2(t_msg.transform).bt
         /\ IsUnit(t_msg.transform.rotation))
          => /\ t_out'.transform.translation = t_msg.transform.translation
             /\ t_out'.transform.rotation = t_msg.transform.rotation
     /\ (/\ Call_poseTF2ToMsg
         /\ o_bt.data = poseMsgToTF2(o_msg.pose).bt
         /\ IsUnit(o_msg.pose.orientation))
          => /\ o_out'.pose.position = o_msg.pose.position
             /\ o_out'.pose.orientation = o_msg.pose.orientation]_vars

\* C7 amended: the translation is reproduced exactly and the rotation up to the sign
\* of all four fields: the output is (x, y, z, w) or (-x, -y, -z, -w).
C7_TransformRoundTripUpToSign ==
  [][/\ (/\ Call_transformTF2ToMsg
         /\ t_bt.data = transformMsgToTF2(t_msg.transform).bt
         /\ IsUnit(t_msg.transform.rotation))
          => /\ t_out'.transform.translation = t_msg.transform.translation
             /\ t_out'.transform.rotation
                  \in {t_msg.transform.rotation, Neg(t_msg.transform.rotation)}
     /\ (/\ Call_poseTF2ToMsg
         /\ o_bt.data = poseMsgToTF2(o_msg.pose).bt
         /\ IsUnit(o_msg.pose.orientation))
          => /\ o_out'.pose.position = o_msg.pose.position
             /\ o_out'.pose.orientation
                  \in {o_msg.pose.orientation, Neg(o_msg.pose.orientation)}]_vars

\* a round trip of a Transform message whose unit rotation comes back negated
C7_Witness ==
  /\ family = "transform"
  /\ IsUnit(t_msg.transform.rotation)
  /\ t_msg.transform.rotation.w < 0
  /\ t_bt.data = transformMsgToTF2(t_msg.transform).bt
  /\ t_out.transform.translation = t_msg.transform.translation
  /\ t_out.transform.rotation = Neg(t_msg.transform.rotation)

\* C8: whatever the interleaving of the threads' statements, a thread that has
\* finished its call has written what the call writes when it runs alone, and when
\* all have finished the log holds exactly the warnings of the calls.
C8_ThreadsIndependent ==
  family = "threads" =>
    /\ \A t \in Threads :
         th_pc[t] = "done" =>
           th_out[t] = IF th_op[t] = "quaternionMsgToTF2"
                       THEN Fields(quaternionMsgToTF2(th_in[t]).bt)
                       ELSE quaternionTF2ToMsg(th_in[t]).msg
    /\ (\A t \in Threads : th_pc[t] = "done") =>
         /\ Cardinality({i \in 1..Len(log) : log[i] = WARN_MSG_TO_TF2})
              = Cardinality({t \in Threads :
                               /\ th_op[t] = "quaternionMsgToTF2"
                               /\ quaternionMsgToTF2(th_in[t]).warn # <<>>})
         /\ Cardinality({i \in 1..Len(log) : log[i] = WARN_TF2_TO_MSG})
              = Cardinality({t \in Threads :
                               /\ th_op[t] = "quaternionTF2ToMsg"
                               /\ quaternionTF2ToMsg(th_in[t]).warn # <<>>})

\* two threads have finished quaternionTF2ToMsg calls that normalized different values
C8_Witness ==
  /\ family = "threads"
  /\ \A t \in Threads : th_pc[t] = "done" /\ th_op[t] = "quaternionTF2ToMsg"
  /\ th_in[1] = Quaternion(SCALE, SCALE, 0, 0)
  /\ th_in[2] = Quaternion(0, -HALF, 0, 0)
  /\ th_out[1] # th_out[2]
  /\ Len(log) = NThreads

\* C9: transformMsgToTF2 and poseMsgToTF2 leave the log as it was, for every input.
C9_NoCheckInTransformMsgToTF2 ==
  [][/\ Call_transformMsgToTF2 => log' = log
     /\ Call_poseMsgToTF2 => log' = log]_vars

\* a Transform message whose rotation has squared length 2 converted without warning
C9_Witness ==
  /\ family = "transform"
  /\ t_msg.transform.rotation = Quaternion(SCALE, 0, 0, -SCALE)
  /\ DiffersMoreThanTenth(t_msg.transform.rotation)
  /\ t_bt.data = transformMsgToTF2(t_msg.transform).bt
  /\ log = <<>>

\* C10: setData on a Stamped<Point> or a StampedTransform leaves the value passed in
\* the wrapper and leaves stamp_, frame_id_ and child_frame_id_ as they were.
C10_SetDataKeepsStamp ==
  [][/\ \A v \in PointArgs \cup {sb.data} :
          Call_setData(v)
            => /\ sa'.data = v
               /\ sa'.stamp_ = sa.stamp_
               /\ sa'.frame_id_ = sa.frame_id_
     /\ \A v \in TransformArgs :
          Call_StampedTransform_setData(v)
            => /\ st'.data = v
               /\ st'.stamp_ = st.stamp_
               /\ st'.frame_id_ = st.frame_id_
               /\ st'.child_frame_id_ = st.child_frame_id_]_vars

\* both wrappers hold a value that only setData can have put there
C10_Witness ==
  /\ family = "stamped"
  /\ sa.data = NewPoint /\ sa.frame_id_ = "map" /\ sa.stamp_ = Time(1, 5)
  /\ st.data = NewTransform /\ st.frame_id_ = "base" /\ st.child_frame_id_ = "laser"

=============================================================================
